---- MODULE Spec2Model ----
(***************************************************************************)
(* Model of the Superstore analytics workflow: the Streamlit dashboard     *)
(* (main.py), one script pass per (re)run, and the batch analysis script   *)
(* (analysis.py).  pandas / statsmodels calls are modelled by what they    *)
(* compute on the small tables used here.                                  *)
(*                                                                         *)
(* A timestamp is <<month, day>>, month counted from an epoch (so the      *)
(* month after m is m + 1); NaT is the missing timestamp.  A number that   *)
(* comes out of a division is kept as [num, den].                          *)
(***************************************************************************)
EXTENDS Integers, Sequences, FiniteSets, TLC

VARIABLES prog, file, phase, steps, ended, load_error, df, kpis, widgets,
          filtered_df, sales_month, top_products, region_sales,
          fit_attempted, fit_exc, forecast_status, forecast, warning,
          tn_rows, tn_n, tn_out, tn_done

vars == <<prog, file, phase, steps, ended, load_error, df, kpis, widgets,
          filtered_df, sales_month, top_products, region_sales,
          fit_attempted, fit_exc, forecast_status, forecast, warning,
          tn_rows, tn_n, tn_out, tn_done>>

passVars == <<steps, ended, load_error, df, kpis, widgets, filtered_df,
              sales_month, top_products, region_sales, fit_attempted,
              fit_exc, forecast_status, forecast, warning>>

tnVars == <<tn_rows, tn_n, tn_out, tn_done>>

----------------------------------------------------------------------------
(* Bounds of the model *)

MaxRows == 2
DaysInMonth == 2
MaxTopRows == 3
MaxN == 2

(* Program constants *)

MinPoints == 3
Horizon == 3
TopProductsN == 10

----------------------------------------------------------------------------
(* Values *)

NaT == <<-1, -1>>

Before(a, b) == a[1] < b[1] \/ (a[1] = b[1] /\ a[2] < b[2])

Leq(a, b) == a = b \/ Before(a, b)

\* The text of an order-date cell: <<>> is an empty cell, <<m, d>> reads
\* "day d of month m", which is a date only when the month has such a day.
Cells == {<<>>, <<0, 0>>, <<0, 1>>, <<0, 2>>, <<2, 1>>}

\* region, product name, order id and amounts of an order line
Kinds == {
  [region |-> "East", product_name |-> "A", order_id |-> "O1",
   sales |-> 2, profit |-> 1, quantity |-> 1],
  [region |-> "West", product_name |-> "B", order_id |-> "O1",
   sales |-> 2, profit |-> -1, quantity |-> 0],
  [region |-> "East", product_name |-> "B", order_id |-> "O2",
   sales |-> 0, profit |-> 1, quantity |-> 2] }

RawRow(c, k) ==
  [order_date |-> c, region |-> k.region, product_name |-> k.product_name,
   order_id |-> k.order_id, sales |-> k.sales, profit |-> k.profit,
   quantity |-> k.quantity]

RawRows == {RawRow(c, k) : c \in Cells, k \in Kinds}

SeqsUpTo(S, n) == UNION {[1..k -> S] : k \in 0..n}

\* lexicographic order of the dimension values
NameOrder == <<"A", "B", "C", "East", "West">>

Rank(name) == CHOOSE i \in 1..Len(NameOrder) : NameOrder[i] = name

FitErrors == {"LinAlgError", "ValueError"}

FitOutcomes == {"ok"} \cup FitErrors

Zero == [num |-> 0, den |-> 1]

\* a / b of two Python numbers: raises ZeroDivisionError when b = 0
Div(a, b) == [num |-> a, den |-> b]

RECURSIVE SumSales(_)
SumSales(d) == IF d = <<>> THEN 0 ELSE Head(d).sales + SumSales(Tail(d))

RECURSIVE SumProfit(_)
SumProfit(d) == IF d = <<>> THEN 0 ELSE Head(d).profit + SumProfit(Tail(d))

RECURSIVE SortedSeq(_)
SortedSeq(S) ==
  IF S = {} THEN <<>>
  ELSE LET m == CHOOSE x \in S : \A y \in S : x <= y
       IN <<m>> \o SortedSeq(S \ {m})

----------------------------------------------------------------------------
(* Loader / cleaner: main.py load_and_clean_data *)

\* pd.to_datetime(errors="coerce") on one cell
ToDatetime(cell) ==
  IF Len(cell) = 2 /\ cell[2] \in 1..DaysInMonth
  THEN <<cell[1], cell[2]>>
  ELSE NaT

UnitPriceUnguarded(row) == Div(row.sales, row.quantity)

UnitPrice(row) ==
  IF row.quantity # 0 THEN Div(row.sales, row.quantity) ELSE Zero

ProfitMargin(row) ==
  IF row.sales # 0 THEN Div(row.profit, row.sales) ELSE Zero

\* one row after the column assignments of lines 59-72
CleanRow(row, has_order_date) ==
  [order_date |-> IF has_order_date THEN ToDatetime(row.order_date) ELSE NaT,
   region |-> row.region, product_name |-> row.product_name,
   order_id |-> row.order_id, sales |-> row.sales, profit |-> row.profit,
   quantity |-> row.quantity,
   unit_price |-> UnitPrice(row), profit_margin |-> ProfitMargin(row)]

DropNaNothing(d) == d

\* df.dropna(subset=["order_date"])
DropNaOrderDate(d) == SelectSeq(d, LAMBDA r : r.order_date # NaT)

\* raised: the exception that leaves the function ("none": it returned);
\* shown: st.error was called; df: the value returned
LoadAndCleanData(f) ==
  IF ~f.exists
  THEN [raised |-> "none", shown |-> TRUE, df |-> <<>>]
  ELSE IF ~f.readable
  THEN [raised |-> "read_error", shown |-> FALSE, df |-> <<>>]
  ELSE LET cleaned == [i \in 1..Len(f.rows) |->
                         CleanRow(f.rows[i], f.has_order_date)]
       IN IF \E i \in 1..Len(cleaned) :
               cleaned[i].unit_price.den = 0 \/ cleaned[i].profit_margin.den = 0
          THEN [raised |-> "ZeroDivisionError", shown |-> FALSE, df |-> <<>>]
          ELSE IF ~f.has_order_date
          THEN [raised |-> "KeyError", shown |-> FALSE, df |-> <<>>]
          ELSE [raised |-> "none", shown |-> FALSE,
                df |-> DropNaOrderDate(cleaned)]

\* the guard clause: if df.empty: st.stop()
GuardStops(d) == d = <<>>

----------------------------------------------------------------------------
(* KPIs *)

\* numpy division: no exception, den = 0 stands for inf / nan
KPIs(d) ==
  LET total_sales == SumSales(d)
      total_profit == SumProfit(d)
      orders == Cardinality({d[i].order_id : i \in 1..Len(d)})
  IN [total_sales |-> total_sales, total_profit |-> total_profit,
      orders |-> orders,
      avg_order_value |-> Div(total_sales, orders),
      profit_margin |-> Div(total_profit, total_sales)]

KpiSourceFiltered(cleaned, filtered) == filtered

\* the frame the dashboard's KPI block reads
KpiSource(cleaned, filtered) == cleaned

----------------------------------------------------------------------------
(* Filters *)

RegionsOf(d) == {d[i].region : i \in 1..Len(d)}

DatesOf(d) == {d[i].order_date : i \in 1..Len(d)}

MinDate(d) == CHOOSE x \in DatesOf(d) : \A y \in DatesOf(d) : Leq(x, y)

MaxDate(d) == CHOOSE x \in DatesOf(d) : \A y \in DatesOf(d) : Leq(y, x)

\* the widgets' values on a first run
DefaultWidgets(d) ==
  [selected_regions |-> RegionsOf(d), date_range |-> <<MinDate(d), MaxDate(d)>>]

MaskNoEmptyCheck(r, lo, hi, sel) ==
  /\ r.order_date # NaT /\ Leq(lo, r.order_date) /\ Leq(r.order_date, hi)
  /\ r.region \in sel

\* Series.between (inclusive on both sides), then isin when a region is selected
Mask(r, lo, hi, sel) ==
  /\ r.order_date # NaT /\ Leq(lo, r.order_date) /\ Leq(r.order_date, hi)
  /\ (sel # {} => r.region \in sel)

Filter(d, w) ==
  SelectSeq(d, LAMBDA r : Mask(r, w.date_range[1], w.date_range[2],
                               w.selected_regions))

----------------------------------------------------------------------------
(* Aggregates *)

MonthsOf(d) == {d[i].order_date[1] : i \in {j \in 1..Len(d) : d[j].order_date # NaT}}

InMonth(d, m) == SelectSeq(d, LAMBDA r : r.order_date # NaT /\ r.order_date[1] = m)

MonthlyPresentOnly(d) ==
  LET ms == SortedSeq(MonthsOf(d))
  IN [k \in 1..Len(ms) |->
        [order_date |-> <<ms[k], DaysInMonth>>, sales |-> SumSales(InMonth(d, ms[k]))]]

\* groupby(pd.Grouper(key="order_date", freq="M"))["sales"].sum(): one bin per
\* month from the first to the last month of the frame, labelled by month end
MonthlyGrouper(d) ==
  IF MonthsOf(d) = {} THEN <<>>
  ELSE LET ms == SortedSeq(MonthsOf(d))
           first == ms[1]
           last == ms[Len(ms)]
       IN [k \in 1..(last - first + 1) |->
             [order_date |-> <<first + k - 1, DaysInMonth>>,
              sales |-> SumSales(InMonth(d, first + k - 1))]]

\* dt.to_period("M").dt.to_timestamp(), then groupby("month")["sales"].sum():
\* one group per month that occurs, labelled by month start
MonthlyByPeriod(d) ==
  LET ms == SortedSeq(MonthsOf(d))
  IN [k \in 1..Len(ms) |->
        [order_date |-> <<ms[k], 1>>, sales |-> SumSales(InMonth(d, ms[k]))]]

\* groupby(key)["sales"].sum(): groups in ascending key order
GroupBySales(d, key) ==
  LET ranks == SortedSeq({Rank(d[i][key]) : i \in 1..Len(d)})
  IN [k \in 1..Len(ranks) |->
        [name |-> NameOrder[ranks[k]],
         sales |-> SumSales(SelectSeq(d, LAMBDA r : r[key] = NameOrder[ranks[k]]))]]

RECURSIVE DistinctInOrder(_, _, _)
DistinctInOrder(d, key, seen) ==
  IF d = <<>> THEN <<>>
  ELSE IF Head(d)[key] \in seen THEN DistinctInOrder(Tail(d), key, seen)
  ELSE <<Head(d)[key]>> \o DistinctInOrder(Tail(d), key, seen \cup {Head(d)[key]})

\* groupby(key, sort=False): groups in order of first appearance
GroupBySalesUnsorted(d, key) ==
  LET names == DistinctInOrder(d, key, {})
  IN [k \in 1..Len(names) |->
        [name |-> names[k],
         sales |-> SumSales(SelectSeq(d, LAMBDA r : r[key] = names[k]))]]

RemoveAt(s, i) == SubSeq(s, 1, i - 1) \o SubSeq(s, i + 1, Len(s))

\* Series.nlargest(n), keep="first"
RECURSIVE NLargest(_, _)
NLargest(s, n) ==
  IF n = 0 \/ s = <<>> THEN <<>>
  ELSE LET i == CHOOSE i \in 1..Len(s) :
                  /\ \A j \in 1..Len(s) : s[j].sales <= s[i].sales
                  /\ \A j \in 1..(i - 1) : s[j].sales < s[i].sales
       IN <<s[i]>> \o NLargest(RemoveAt(s, i), n - 1)

TopNByFirstAppearance(d, key, n) == NLargest(GroupBySalesUnsorted(d, key), n)

\* groupby(key)["sales"].sum().nlargest(n)
TopNBy(d, key, n) == NLargest(GroupBySales(d, key), n)

----------------------------------------------------------------------------
(* Forecast *)

\* what model.fit does on a series of n points: the additive trend needs two
\* points to start from; on longer series the fit may still fail numerically
Fit(ts, outcome) ==
  IF Len(ts) < 2 /\ outcome = "ok" THEN "ValueError" ELSE outcome

\* the index statsmodels forecasts on: the series' index carries no frequency
\* after reset_index / set_index, so one is inferred, which takes at least
\* three equally spaced months; otherwise the date index is ignored
HasMonthlyFreq(ts) ==
  /\ Len(ts) >= 3
  /\ \A k \in 1..(Len(ts) - 1) : ts[k + 1].order_date[1] = ts[k].order_date[1] + 1

\* fit.forecast(3): the labels of the forecast series
ForecastIndex(ts, steps_ahead) ==
  IF HasMonthlyFreq(ts)
  THEN [k \in 1..steps_ahead |->
          <<"timestamp", ts[Len(ts)].order_date[1] + k, ts[Len(ts)].order_date[2]>>]
  ELSE [k \in 1..steps_ahead |-> <<"position", Len(ts) + k - 1>>]

NoForecast ==
  [attempted |-> FALSE, exc |-> "none", status |-> "none", forecast |-> <<>>,
   warning |-> "", raised |-> FALSE]

\* len(sales_month_ts) >= 3
EnoughData(ts) == Len(ts) >= MinPoints

TryFit(ts, outcome) ==
  IF Fit(ts, outcome) = "ok"
  THEN [attempted |-> TRUE, exc |-> "none", status |-> "ok",
        forecast |-> ForecastIndex(ts, Horizon), warning |-> "", raised |-> FALSE]
  ELSE [attempted |-> TRUE, exc |-> Fit(ts, outcome), status |-> "forecast_failed",
        forecast |-> <<>>, warning |-> Fit(ts, outcome), raised |-> FALSE]

TryFitUncaught(ts, outcome) ==
  IF Fit(ts, outcome) = "ok"
  THEN [attempted |-> TRUE, exc |-> "none", status |-> "ok",
        forecast |-> ForecastIndex(ts, Horizon), warning |-> "", raised |-> FALSE]
  ELSE [attempted |-> TRUE, exc |-> Fit(ts, outcome), status |-> "none",
        forecast |-> <<>>, warning |-> "", raised |-> TRUE]

DashForecastUncaught(ts, outcome) ==
  IF EnoughData(ts) THEN TryFitUncaught(ts, outcome)
  ELSE [NoForecast EXCEPT !.status = "not_enough_data"]

\* main.py: the try block of the forecast section
DashForecast(ts, outcome) ==
  IF EnoughData(ts) THEN TryFit(ts, outcome)
  ELSE [NoForecast EXCEPT !.status = "not_enough_data"]

\* analysis.py: the try block of the forecast section
BatchForecast(ts, outcome) == TryFit(ts, outcome)

----------------------------------------------------------------------------
(* One pass of each script *)

NoKpis == KPIs(<<>>)

NoWidgets == [selected_regions |-> {}, date_range |-> <<NaT, NaT>>]

Blank ==
  [steps |-> {}, ended |-> "running", load_error |-> "none", df |-> <<>>,
   kpis |-> NoKpis, widgets |-> NoWidgets, filtered_df |-> <<>>,
   sales_month |-> <<>>, top_products |-> <<>>, region_sales |-> <<>>,
   fc |-> NoForecast]

\* main.py top to bottom; w: the widgets' values of this run
DashboardPass(f, first, w, outcome) ==
  LET load == LoadAndCleanData(f)
  IN IF load.raised # "none"
     THEN [Blank EXCEPT !.steps = {"load"}, !.ended = "fault",
                        !.load_error = load.raised]
     ELSE IF GuardStops(load.df)
     THEN [Blank EXCEPT !.steps = {"load"}, !.ended = "stopped",
                        !.load_error = IF load.shown THEN "not_found" ELSE "none"]
     ELSE LET wd == IF first THEN DefaultWidgets(load.df) ELSE w
              filtered == Filter(load.df, wd)
              monthly == MonthlyGrouper(filtered)
              fc == DashForecast(monthly, outcome)
          IN [steps |-> {"load", "kpi", "filters", "trend", "top_products",
                         "region", "scatter", "forecast"}
                        \cup (IF fc.raised THEN {} ELSE {"download"}),
              ended |-> IF fc.raised THEN "fault" ELSE "completed",
              load_error |-> "none",
              df |-> load.df,
              kpis |-> KPIs(KpiSource(load.df, filtered)),
              widgets |-> wd,
              filtered_df |-> filtered,
              sales_month |-> monthly,
              top_products |-> TopNBy(filtered, "product_name", TopProductsN),
              region_sales |-> GroupBySales(filtered, "region"),
              fc |-> fc]

\* pd.read_csv(..., parse_dates=["order_date"]): a column with a cell that is
\* no date stays text; an empty cell reads as NaT
ReadClean(f) ==
  [i \in 1..Len(f.rows) |-> CleanRow(f.rows[i], TRUE)]

DateColumnIsText(f) ==
  \E i \in 1..Len(f.rows) :
     f.rows[i].order_date # <<>> /\ ToDatetime(f.rows[i].order_date) = NaT

\* analysis.py top to bottom
BatchPass(f, outcome) ==
  IF ~f.exists \/ ~f.readable \/ ~f.has_order_date
  THEN [Blank EXCEPT !.steps = {"read"}, !.ended = "fault",
                     !.load_error = "read_error"]
  ELSE IF DateColumnIsText(f)
  THEN [Blank EXCEPT !.steps = {"read", "kpi"}, !.ended = "fault",
                     !.load_error = "AttributeError",
                     !.df = <<>>, !.kpis = KPIs(f.rows)]
  ELSE LET d == ReadClean(f)
           monthly == MonthlyByPeriod(d)
           fc == BatchForecast(monthly, outcome)
       IN [steps |-> {"read", "kpi", "trend", "top_products", "region",
                      "scatter", "forecast", "saved_message"},
           ended |-> "completed",
           load_error |-> "none",
           df |-> d,
           kpis |-> KPIs(d),
           widgets |-> NoWidgets,
           filtered_df |-> d,
           sales_month |-> monthly,
           top_products |-> TopNBy(d, "product_name", TopProductsN),
           region_sales |-> GroupBySales(d, "region"),
           fc |-> fc]

----------------------------------------------------------------------------
(* State machine *)

Files ==
  {[exists |-> FALSE, readable |-> FALSE, has_order_date |-> TRUE, rows |-> <<>>],
   [exists |-> TRUE, readable |-> FALSE, has_order_date |-> TRUE, rows |-> <<>>]}
  \cup {[exists |-> TRUE, readable |-> TRUE, has_order_date |-> FALSE, rows |-> r] :
          r \in SeqsUpTo({x \in RawRows : x.order_date = <<>>}, 1)}
  \cup {[exists |-> TRUE, readable |-> TRUE, has_order_date |-> TRUE, rows |-> r] :
          r \in SeqsUpTo(RawRows, MaxRows)}

Assign(p) ==
  /\ steps' = p.steps
  /\ ended' = p.ended
  /\ load_error' = p.load_error
  /\ df' = p.df
  /\ kpis' = p.kpis
  /\ widgets' = p.widgets
  /\ filtered_df' = p.filtered_df
  /\ sales_month' = p.sales_month
  /\ top_products' = p.top_products
  /\ region_sales' = p.region_sales
  /\ fit_attempted' = p.fc.attempted
  /\ fit_exc' = p.fc.exc
  /\ forecast_status' = p.fc.status
  /\ forecast' = p.fc.forecast
  /\ warning' = p.fc.warning

InitPass ==
  /\ phase = "start"
  /\ steps = {} /\ ended = "running" /\ load_error = "none" /\ df = <<>>
  /\ kpis = NoKpis /\ widgets = NoWidgets /\ filtered_df = <<>>
  /\ sales_month = <<>> /\ top_products = <<>> /\ region_sales = <<>>
  /\ fit_attempted = FALSE /\ fit_exc = "none" /\ forecast_status = "none"
  /\ forecast = <<>> /\ warning = ""

InitTopN(rowsets, ns) ==
  /\ tn_rows \in rowsets /\ tn_n \in ns /\ tn_out = <<>> /\ tn_done = FALSE

\* the dashboard reads any of the files; the batch script reads the cleaned
\* export, which holds at least one record when it can be read
Init ==
  /\ prog \in {"dashboard", "batch"}
  /\ file \in Files
  /\ (prog = "batch" /\ file.exists /\ file.readable) => file.rows # <<>>
  /\ InitPass
  /\ InitTopN({<<>>}, {0})

\* the first run of the dashboard script: the widgets show their defaults
DashboardFirstRun ==
  /\ prog = "dashboard" /\ phase = "start"
  /\ \E outcome \in FitOutcomes :
       \E p \in {DashboardPass(file, TRUE, NoWidgets, outcome)} : Assign(p)
  /\ phase' = "ran"
  /\ UNCHANGED <<prog, file, tnVars>>

ValidDates == {ToDatetime(c) : c \in Cells} \ {NaT}

\* a filter change: the script runs again with the widgets' new values (the
\* cleaned frame comes from st.cache_data, the same value the load returned)
DashboardRerun ==
  /\ prog = "dashboard" /\ phase = "ran" /\ "filters" \in steps
  /\ \E sel \in SUBSET RegionsOf(df), lo \in ValidDates, hi \in ValidDates,
        outcome \in FitOutcomes :
       /\ Leq(lo, hi)
       /\ \E p \in {DashboardPass(file, FALSE,
                     [selected_regions |-> sel, date_range |-> <<lo, hi>>], outcome)} :
            Assign(p)
  /\ UNCHANGED <<prog, file, phase, tnVars>>

\* one run of the batch script
BatchRun ==
  /\ prog = "batch" /\ phase = "start"
  /\ \E outcome \in FitOutcomes :
       \E p \in {BatchPass(file, outcome)} : Assign(p)
  /\ phase' = "ran"
  /\ UNCHANGED <<prog, file, tnVars>>

Next == DashboardFirstRun \/ DashboardRerun \/ BatchRun

Spec == Init /\ [][Next]_vars

(* Top-N over a categorical dimension, on its own *)

TopRows ==
  {[product_name |-> p, sales |-> v] : p \in {"A", "B", "C"}, v \in {1, 2}}

InitTop ==
  /\ prog = "topn"
  /\ file = [exists |-> FALSE, readable |-> FALSE, has_order_date |-> TRUE, rows |-> <<>>]
  /\ InitPass
  /\ InitTopN(SeqsUpTo(TopRows, MaxTopRows), 1..MaxN)

TopN ==
  /\ prog = "topn" /\ ~tn_done
  /\ tn_out' = TopNBy(tn_rows, "product_name", tn_n)
  /\ tn_done' = TRUE
  /\ UNCHANGED <<prog, file, phase, passVars, tn_rows, tn_n>>

NextTop == TopN

SpecTopN == InitTop /\ [][NextTop]_vars

----------------------------------------------------------------------------
(* Properties *)

DashboardLoaded ==
  prog = "dashboard" /\ "load" \in steps /\ load_error \in {"none", "not_found"}

ParseableRows == {i \in 1..Len(file.rows) : ToDatetime(file.rows[i].order_date) # NaT}

ParseableSales ==
  SumSales(SelectSeq(file.rows, LAMBDA r : ToDatetime(r.order_date) # NaT))

\* C1: once load_and_clean_data has returned, every record of the cleaned set
\* has a parsed order date; the cleaned set holds exactly the rows of the file
\* whose date parses, and the filtered subset, the KPIs, the monthly and the
\* categorical aggregates are computed from those rows alone.
C1_CleanedDatesValid ==
  DashboardLoaded =>
    /\ \A i \in 1..Len(df) : df[i].order_date # NaT
    /\ Len(df) = Cardinality(ParseableRows)
    /\ \A i \in 1..Len(filtered_df) : filtered_df[i].order_date # NaT
    /\ "kpi" \in steps => kpis.total_sales = ParseableSales
    /\ SumSales(sales_month) <= ParseableSales
    /\ SumSales(region_sales) <= ParseableSales
    /\ SumSales(top_products) <= ParseableSales

C1_Witness ==
  /\ prog = "dashboard" /\ ended = "completed"
  /\ \E i \in 1..Len(file.rows) : ToDatetime(file.rows[i].order_date) = NaT
  /\ Len(df) >= 1 /\ Len(filtered_df) >= 1

\* C2 (as stated): after a dashboard pass the reported KPIs are the KPIs of
\* exactly the records that pass the active filter.
C2_KpisOfFiltered ==
  (prog = "dashboard" /\ ended = "completed") =>
    /\ kpis.total_sales = SumSales(filtered_df)
    /\ kpis.total_profit = SumProfit(filtered_df)
    /\ kpis.orders = Cardinality({filtered_df[i].order_id : i \in 1..Len(filtered_df)})

\* C2 (amended): the dashboard computes the KPI set over the whole cleaned set,
\* before any filter is applied; after any sequence of filter changes the
\* reported KPIs are those of all cleaned records, whatever the active filter.
C2_KpisOfCleaned ==
  (prog = "dashboard" /\ "kpi" \in steps) =>
    /\ kpis.total_sales = SumSales(df)
    /\ kpis.total_profit = SumProfit(df)
    /\ kpis.orders = Cardinality({df[i].order_id : i \in 1..Len(df)})
    /\ kpis.avg_order_value = [num |-> SumSales(df), den |-> kpis.orders]
    /\ kpis.profit_margin = [num |-> SumProfit(df), den |-> SumSales(df)]

C2_Witness ==
  /\ prog = "dashboard" /\ ended = "completed"
  /\ Len(filtered_df) < Len(df)
  /\ SumSales(filtered_df) # SumSales(df)
  /\ widgets # DefaultWidgets(df)

InSeq(x, s) == \E j \in 1..Len(s) : s[j] = x

Passes(r) ==
  /\ \/ widgets.date_range[1][1] < r.order_date[1]
     \/ /\ widgets.date_range[1][1] = r.order_date[1]
        /\ widgets.date_range[1][2] <= r.order_date[2]
  /\ \/ r.order_date[1] < widgets.date_range[2][1]
     \/ /\ r.order_date[1] = widgets.date_range[2][1]
        /\ r.order_date[2] <= widgets.date_range[2][2]
  /\ (widgets.selected_regions = {} \/ r.region \in widgets.selected_regions)

\* C3: a cleaned record is in the filtered subset iff its order date lies in
\* the inclusive date range and (no region is selected or its region is
\* selected); the filtered subset holds nothing else.
C3_FilterSemantics ==
  (prog = "dashboard" /\ "filters" \in steps) =>
    /\ \A i \in 1..Len(df) : InSeq(df[i], filtered_df) <=> Passes(df[i])
    /\ \A j \in 1..Len(filtered_df) : InSeq(filtered_df[j], df)
    /\ Len(filtered_df) = Cardinality({i \in 1..Len(df) : Passes(df[i])})

C3_Witness ==
  /\ prog = "dashboard" /\ ended = "completed"
  /\ widgets.selected_regions = {}
  /\ Cardinality(RegionsOf(df)) = 2
  /\ Len(df) = 2 /\ Len(filtered_df) = 1
  /\ filtered_df[1].order_date = widgets.date_range[2]

MonthAt(k) == sales_month[k].order_date[1]

MonthlyCommon ==
  /\ \A k \in 1..(Len(sales_month) - 1) : MonthAt(k) < MonthAt(k + 1)
  /\ \A k \in 1..Len(sales_month) :
       sales_month[k].sales = SumSales(InMonth(filtered_df, MonthAt(k)))
  /\ \A m \in MonthsOf(filtered_df) : \E k \in 1..Len(sales_month) : MonthAt(k) = m

\* C4 (as stated): the monthly aggregate has exactly one entry per calendar
\* month in which a filtered record falls, chronologically, each with the
\* month's sales; a month without records does not appear.
C4_NoEmptyMonths ==
  "trend" \in steps =>
    /\ MonthlyCommon
    /\ \A k \in 1..Len(sales_month) : MonthAt(k) \in MonthsOf(filtered_df)

\* C4 (amended): the monthly aggregate is chronological and carries each
\* month's sales sum; in the batch script it has exactly one entry per month in
\* which a record falls; in the dashboard it has one entry for every calendar
\* month from the first to the last month in which a filtered record falls, so
\* a month without records between two months that have records appears with
\* sum 0, and no month before the first or after the last appears.
C4_MonthlyAggregate ==
  "trend" \in steps =>
    /\ MonthlyCommon
    /\ prog = "batch" =>
         \A k \in 1..Len(sales_month) : MonthAt(k) \in MonthsOf(filtered_df)
    /\ prog = "dashboard" =>
         /\ \A k \in 1..(Len(sales_month) - 1) : MonthAt(k + 1) = MonthAt(k) + 1
         /\ sales_month # <<>> =>
              /\ MonthAt(1) \in MonthsOf(filtered_df)
              /\ MonthAt(Len(sales_month)) \in MonthsOf(filtered_df)
         /\ \A k \in 1..Len(sales_month) :
              MonthAt(k) \notin MonthsOf(filtered_df) => sales_month[k].sales = 0

C4_Witness ==
  /\ prog = "dashboard" /\ ended = "completed"
  /\ \E k \in 1..Len(sales_month) :
       /\ MonthAt(k) \notin MonthsOf(filtered_df)
       /\ sales_month[k].sales = 0
       /\ 1 < k /\ k < Len(sales_month)

\* C5: in every entry point, when the monthly aggregate given to the forecast
\* step has fewer than 3 points the fit is not attempted, there is no forecast
\* and "not enough data" is reported.
C5_ShortSeriesSkipsFit ==
  ("forecast" \in steps /\ Len(sales_month) < MinPoints) =>
    /\ ~fit_attempted
    /\ forecast = <<>>
    /\ forecast_status = "not_enough_data"

\* C6: when the data source does not exist or cannot be read, the loader
\* returns an empty result and the run stops in the "no data" state: nothing
\* after the load is executed and no fault is raised.
C6_NoDataHalts ==
  (prog = "dashboard" /\ phase = "ran" /\ (~file.exists \/ ~file.readable)) =>
    /\ ended = "stopped"
    /\ df = <<>>
    /\ steps = {"load"}

LastStep == IF prog = "dashboard" THEN "download" ELSE "saved_message"

\* C7: when the fit-and-forecast step fails, the failure is reported as a
\* "forecast failed" warning that carries the error, no fault leaves the
\* script, and the script goes on to its remaining step (the export in the
\* dashboard, the final message in the batch script) without a forecast.
C7_FitFailureReported ==
  fit_exc # "none" =>
    /\ forecast_status = "forecast_failed"
    /\ warning = fit_exc
    /\ forecast = <<>>
    /\ ended = "completed"
    /\ LastStep \in steps

C7_Witness ==
  /\ prog = "dashboard" /\ fit_exc \in FitErrors
  /\ "download" \in steps /\ forecast_status = "forecast_failed"

\* C8: a successful forecast has exactly 3 entries, stamped with the 3
\* consecutive calendar months after the last month of the aggregate.
C8_ForecastMonths ==
  forecast_status = "ok" =>
    /\ Len(forecast) = Horizon
    /\ \A k \in 1..Len(forecast) :
         /\ forecast[k][1] = "timestamp"
         /\ forecast[k][2] = MonthAt(Len(sales_month)) + k

SameRatio(x, a, b) == x.den # 0 /\ x.num * b = a * x.den

\* C9: the derived fields are computed without a division by zero: quantity = 0
\* gives unit_price = 0, otherwise unit_price = sales / quantity; sales = 0
\* gives profit_margin = 0, otherwise profit_margin = profit / sales.
C9_DerivedFields ==
  (prog = "dashboard" /\ "load" \in steps) =>
    /\ load_error # "ZeroDivisionError"
    /\ \A i \in 1..Len(df) :
         /\ df[i].quantity = 0 => df[i].unit_price = Zero
         /\ df[i].quantity # 0 => SameRatio(df[i].unit_price, df[i].sales, df[i].quantity)
         /\ df[i].sales = 0 => df[i].profit_margin = Zero
         /\ df[i].sales # 0 => SameRatio(df[i].profit_margin, df[i].profit, df[i].sales)

C9_Witness ==
  /\ prog = "dashboard" /\ ended = "completed"
  /\ \E i \in 1..Len(df) : df[i].quantity = 0 /\ df[i].sales # 0
  /\ \E i \in 1..Len(df) : df[i].sales = 0 /\ df[i].quantity # 0

TnNames == {tn_rows[i].product_name : i \in 1..Len(tn_rows)}

TnSum(p) == SumSales(SelectSeq(tn_rows, LAMBDA r : r.product_name = p))

TnFirst(p) == CHOOSE i \in 1..Len(tn_rows) :
                /\ tn_rows[i].product_name = p
                /\ \A j \in 1..(i - 1) : tn_rows[j].product_name # p

TnOutNames == {tn_out[k].name : k \in 1..Len(tn_out)}

TnMin(a, b) == IF a <= b THEN a ELSE b

\* the ranked list: N entries (fewer when there are fewer distinct values),
\* distinct values with their sums, non-increasing, none left out that sums
\* to more than an entry
TopNRanked ==
  /\ Len(tn_out) = TnMin(tn_n, Cardinality(TnNames))
  /\ TnOutNames \subseteq TnNames
  /\ Cardinality(TnOutNames) = Len(tn_out)
  /\ \A k \in 1..Len(tn_out) : tn_out[k].sales = TnSum(tn_out[k].name)
  /\ \A k \in 1..(Len(tn_out) - 1) : tn_out[k].sales >= tn_out[k + 1].sales
  /\ \A p \in TnNames \ TnOutNames : \A k \in 1..Len(tn_out) :
       TnSum(p) <= tn_out[k].sales

\* the pairs <<winner, loser>> of a tie: two entries with equal sums, in the
\* order listed, or an entry and a value left out with the same sum
TnTies ==
  {pq \in TnOutNames \X TnNames :
     /\ TnSum(pq[1]) = TnSum(pq[2])
     /\ \/ pq[2] \notin TnOutNames
        \/ \E i \in 1..Len(tn_out) : \E j \in (i + 1)..Len(tn_out) :
             tn_out[i].name = pq[1] /\ tn_out[j].name = pq[2]}

\* C10 (as stated): Top-N returns the distinct values ranked by summed sales,
\* non-increasing, exactly N entries (fewer only if fewer distinct values
\* exist), ties broken by order of first appearance among the records.
C10_TiesByFirstAppearance ==
  tn_done => /\ TopNRanked
             /\ \A pq \in TnTies : TnFirst(pq[1]) < TnFirst(pq[2])

\* C10 (amended): Top-N returns the distinct values ranked by summed sales,
\* non-increasing, exactly N entries (fewer only if fewer distinct values
\* exist), ties broken by the order of the grouped aggregate, which is the
\* ascending order of the dimension value, not the order of first appearance
\* among the records.
C10_TiesByKeyOrder ==
  tn_done => /\ TopNRanked
             /\ \A pq \in TnTies : Rank(pq[1]) < Rank(pq[2])

C10_Witness ==
  /\ tn_done /\ Len(tn_out) < Cardinality(TnNames)
  /\ \E p \in TnNames \ TnOutNames :
       /\ TnSum(p) = tn_out[Len(tn_out)].sales
       /\ TnFirst(p) < TnFirst(tn_out[Len(tn_out)].name)

====
